---- MODULE Spec2Model ----
(***************************************************************************)
(* Model of the TikTok main controller (src/main-controller.js):           *)
(*   - the permanent-online reconciliation loop                            *)
(*     (startPermanentOnlineSystem / keepAllBotsPermanentlyOnline), and    *)
(*   - the job monitor (POST /api/start-all, startEnhancedMonitoring,      *)
(*     updateInstanceStatuses, stopJobBots, GET /api/live-progress,        *)
(*     POST /api/stop-all),                                                *)
(* and of the job tracking of the earlier server kept in                   *)
(* src/unnamed/part_002 (global.runningJobs with a status field,           *)
(* startVideoMonitoring, its start-all and stop-all) and the control       *)
(* routes of the permanent-online system of src/unnamed/part_000.          *)
(* Node.js runs one callback at a time: every action below is the code     *)
(* that runs between two awaits of one async function.                     *)
(***************************************************************************)
EXTENDS Integers, Sequences, FiniteSets, TLC

\* ------------------------------------------------------------ bounds
\* The wall clock (Date.now(), new Date()) takes the values 0..MaxClock.
MaxClock == 1
\* restartCount is capped: a keep-alive Start is only answered with success
\* while the counter of the record held by the tick is below the cap.
MaxRestartCount == 2

Workers == {"w1", "w2"}

\* The answers of the directory (getInstancesForSystem): the instance list, in
\* list order, with instance.enabled. One behaviour has one directory.
Directories ==
    {<<[id |-> "w1", enabled |-> e]>> : e \in BOOLEAN}
    \cup {<<[id |-> "w1", enabled |-> e], [id |-> "w2", enabled |-> f]>> : e, f \in BOOLEAN}

\* Bodies of reconciliation ticks that can be in flight at the same time:
\* setInterval fires every 10 s, one tick awaits up to 15 s + 25 s per worker.
\* Ticks overlap over a one-worker directory; a two-worker directory is
\* walked by one tick at a time (the records of two workers share nothing).
RTicks == {1, 2}
TickSlots(dir) == IF Len(dir) = 1 THEN RTicks ELSE {1}

\* Identities of the botInfo objects held by permanentOnlineBots and by ticks.
BotObjs == 1..3
NoObj == 0

\* ------------------------------------------------------------ the interval timer
\* Interval timers that can be set at the same time.
MaxTimers == 2
TimerIds == 1..MaxTimers

\* let permanentOnlineInterval = null (line 39).
NoTimer == [handle |-> 0, active |-> {}]

\* clearInterval(permanentOnlineInterval) when the variable is not null.
Cleared(p) == IF p.handle # 0 THEN p.active \ {p.handle} ELSE p.active

CanSetInterval(p) == Cardinality(p.active) < MaxTimers

NewTimer(act) == CHOOSE i \in TimerIds \ act : \A k \in TimerIds \ act : i <= k

\* A start that sets a new interval over the one that is running.
StartTimerWithoutClear(p) == [handle |-> NewTimer(p.active), active |-> p.active \cup {NewTimer(p.active)}]

\* startPermanentOnlineSystem, lines 397-413: the interval that is set is
\* cleared, a new one is set and kept in the variable.
StartTimer(p) == [handle |-> NewTimer(Cleared(p)), active |-> Cleared(p) \cup {NewTimer(Cleared(p))}]

\* stopPermanentOnlineSystem, lines 415-419: clearInterval and null.
StopTimer(p) == [handle |-> 0, active |-> Cleared(p)]

VARIABLES
    now,                      \* wall clock
    directory,                \* the directory's answer: <<[id, enabled], ...>>
    booted,                   \* the boot timeout has started the permanent online system
    down,                     \* a SIGTERM / SIGINT has been handled
    permanentOnlineInterval,  \* handle: the timer the variable holds (0: null); active: the timers set and not cleared
    permanentOnlineBots,      \* Map instance.id -> botInfo object (NoObj: no entry)
    botHeap,                  \* the botInfo objects
    rtick,                    \* reconciliation ticks in flight
    ev,                       \* the last step: response handled and request issued
    progressTracker,          \* Map jobId -> job object (NoJob: no entry)
    jobs,                     \* the job objects
    creq,                     \* the POST /api/start-all handlers, one per request (job)
    monitor,                  \* monitoringInterval of each startEnhancedMonitoring call
    mtick,                    \* monitor ticks (and the stopJobBots they call) in flight
    query,                    \* the GET /api/live-progress handler
    stopall,                  \* the POST /api/stop-all handler
    stopsIssued,              \* history: POST /stop calls of stopJobBots, per job and instance
    runningJobs,              \* part_002: global.runningJobs[videoId], one video
    vreq,                     \* part_002: the POST /api/start-all handlers, one per call
    checkInterval,            \* part_002: checkInterval of each startVideoMonitoring call
    vtick,                    \* part_002: the monitor tick of each checkInterval
    vstop                     \* part_002: the POST /api/stop-all handler

reconVars == <<booted, down, permanentOnlineInterval, permanentOnlineBots, botHeap, rtick>>

jobVars == <<progressTracker, jobs, creq, monitor, mtick, query, stopall, stopsIssued>>

videoVars == <<runningJobs, vreq, checkInterval, vtick, vstop>>

\* ------------------------------------------------------------ botInfo objects
FreeBot ==
    [instanceId |-> "none", restartCount |-> 0, lastSeen |-> 0,
     critical |-> FALSE, lastError |-> FALSE]

\* The object literal of lines 447-454, 489-496: no critical, no lastError.
NewBotInfo(w, clock) ==
    [instanceId |-> w, restartCount |-> 0, lastSeen |-> clock,
     critical |-> FALSE, lastError |-> FALSE]

\* The object literal of lines 518-526.
NewCriticalBotInfo(w, clock) ==
    [NewBotInfo(w, clock) EXCEPT !.critical = TRUE]

IsFree(heap, o) == heap[o].instanceId = "none"

\* A new object takes the lowest unused identity.
Alloc(heap) == CHOOSE o \in BotObjs : IsFree(heap, o) /\ \A p \in BotObjs : p < o => ~IsFree(heap, p)

\* Objects no variable refers to any more are garbage.
Collect(heap, map, ticks) ==
    [o \in BotObjs |->
        IF (\E w \in Workers : map[w] = o) \/ (\E t \in RTicks : ticks[t].botInfo = o)
        THEN heap[o] ELSE FreeBot]

\* botInfo: the object the tick holds across its POST /start; fresh: it is
\* the new literal of line 489 (the map had no entry); starts: POST /start
\* calls of this tick to the instance in hand.
IdleTick == [pc |-> "idle", idx |-> 0, botInfo |-> NoObj, fresh |-> FALSE, starts |-> 0]

\* The last step: the response (or timer, or request of a client) that tick or
\* handler t (of job j) handled, about worker w, and the request it then issued
\* to worker `to` (a Start with its mode and target); progress is the progress
\* a live-progress response reports, key the jobId it was asked for and body
\* what a 2xx answer to the reconciliation's GET /status carried.
NoKey == MaxClock + 1

NoEv ==
    [t |-> 0, j |-> 0, w |-> "none", resp |-> "none", req |-> "none", to |-> "none",
     mode |-> "none", target |-> 0, progress |-> 0, key |-> NoKey, body |-> "none"]

\* targetViews of the keep-alive Start (lines 468, 499).
KeepAliveTarget == 1000000

Ev(t, w, resp, req, to, mode) ==
    [NoEv EXCEPT !.t = t, !.w = w, !.resp = resp, !.req = req, !.to = to, !.mode = mode,
                 !.target = IF req = "Start" THEN KeepAliveTarget ELSE 0]

\* ------------------------------------------------------------ jobs
\* Metric values (views) are 0..MaxViews.
MaxViews == 2
\* Monitor ticks of one job are started while checkCount, with the ticks in
\* flight, stays below MaxCheckCount.
MaxCheckCount == 3

\* Job objects: one per accepted POST /api/start-all.
Jobs == {1, 2}
\* The requests of a behaviour with one POST /api/start-all.
FirstJob == {1}
NoJob == 0

\* jobId = finalVideoId + '_' + Date.now(): one video, so the clock value.
\* (The clock stands still in JobSpec: with one job its jobId is any one key.)
Keys == 0..MaxClock

\* Monitor ticks of one job that can be in flight at the same time: setInterval
\* fires every 2 s, one tick awaits up to 5 s per instance and 15 s for the stats.
\* Ticks overlap over a one-instance job; a two-instance job has one at a time.
MSlots == {1, 2}

\* req.body.currentViews / targetViews: a number, or nothing parseInt reads.
NaNInput == [num |-> FALSE, val |-> 0]
NumInput(v) == [num |-> TRUE, val |-> v]
CurrentViewsInputs == {NaNInput, NumInput(1)}
TargetViewsInputs == {NaNInput, NumInput(-1), NumInput(1)}

\* parseInt(x) || 0 (lines 1407-1408).
ParseIntOr0(x) == IF x.num THEN x.val ELSE 0

\* Answers to GET {instance.url}/status in updateInstanceStatuses: a failure,
\* or a body with running, success and reqs (one pair of counter values).
StatusCounters == {<<1, 2>>}
StatusReplies ==
    {[ok |-> FALSE, running |-> FALSE, success |-> 0, reqs |-> 0]}
    \cup {[ok |-> TRUE, running |-> r, success |-> c[1], reqs |-> c[2]] :
             r \in BOOLEAN, c \in StatusCounters}

\* Answers of getTikTokVideoStats: the views read off the page, or a failure.
StatsReplies ==
    {[ok |-> FALSE, views |-> 0]} \cup {[ok |-> TRUE, views |-> v] : v \in 0..MaxViews}

NoJobRec ==
    [created |-> FALSE, key |-> 0, startViews |-> 0, targetViews |-> 0, userTarget |-> 0,
     isRunning |-> FALSE, instances |-> <<>>, totalSuccess |-> 0, totalRequests |-> 0,
     currentViews |-> 0, checkCount |-> 0]

IsEnabled(d) == d.enabled

\* instances.filter(inst => inst.enabled) (line 1385).
EnabledInstances(dir) == SelectSeq(dir, IsEnabled)

\* A target that is the requested delta alone, not start + delta.
FinalTargetDeltaOnly(cur, tgt) == ParseIntOr0(tgt)

\* finalTarget = currentViewsNum + targetViewsNum (line 1409).
FinalTarget(cur, tgt) == ParseIntOr0(cur) + ParseIntOr0(tgt)

\* The record of lines 1413-1434.
NewJob(key, cur, tgt, dir) ==
    [created |-> TRUE, key |-> key,
     startViews |-> ParseIntOr0(cur),
     targetViews |-> FinalTarget(cur, tgt),
     userTarget |-> ParseIntOr0(tgt),
     isRunning |-> TRUE,
     instances |-> [i \in 1..Len(EnabledInstances(dir)) |->
                       [id |-> EnabledInstances(dir)[i].id, status |-> "starting",
                        success |-> 0, requests |-> 0]],
     totalSuccess |-> 0, totalRequests |-> 0,
     currentViews |-> ParseIntOr0(cur), checkCount |-> 0]

MonSlots(job) == IF Len(job.instances) = 1 THEN MSlots ELSE {1}

\* The handler of POST /api/start-all: its request body (cur, tgt), its job
\* and the instance whose POST /start it awaits.
IdleCreq == [pc |-> "idle", j |-> NoJob, idx |-> 0, finalTarget |-> 0, cur |-> NaNInput, tgt |-> NaNInput]
IdleMTick == [pc |-> "idle", idx |-> 0, job |-> NoJob]
IdleQuery == [pc |-> "idle", idx |-> 0, job |-> NoJob]

\* ------------------------------------------------------------ part_002 data
\* The earlier controller (src/unnamed/part_002) keeps one record per video in
\* global.runningJobs, with a status field.
\* POST /api/start-all calls of one behaviour, all for the same video.
MaxStartAlls == 2
Calls == 1..MaxStartAlls

\* global.runningJobs[videoId] is undefined. call: the start-all call that
\* made the record; completedAt: <<>> when not set.
NoVideoJob ==
    [exists |-> FALSE, call |-> 0, startViews |-> 0, targetViews |-> 0, currentViews |-> 0,
     isRunning |-> FALSE, status |-> "none", completedAt |-> <<>>]

\* The record of part_002 lines 558-567.
NewVideoJob(c, cur, tgt) ==
    [exists |-> TRUE, call |-> c,
     startViews |-> ParseIntOr0(cur),
     targetViews |-> FinalTarget(cur, tgt),
     currentViews |-> ParseIntOr0(cur),
     isRunning |-> TRUE, status |-> "RUNNING", completedAt |-> <<>>]

IdleVReq == [pc |-> "idle", idx |-> 0, finalTarget |-> 0]
IdleVTick == [pc |-> "idle", idx |-> 0]

JEv(t, j, w, resp, req, to, mode, target, progress) ==
    [t |-> t, j |-> j, w |-> w, resp |-> resp, req |-> req, to |-> to,
     mode |-> mode, target |-> target, progress |-> progress, key |-> NoKey, body |-> "none"]

Init ==
    /\ now = 0
    /\ directory \in Directories
    /\ booted = FALSE
    /\ down = FALSE
    /\ permanentOnlineInterval = NoTimer
    /\ permanentOnlineBots = [w \in Workers |-> NoObj]
    /\ botHeap = [o \in BotObjs |-> FreeBot]
    /\ rtick = [t \in RTicks |-> IdleTick]
    /\ ev = NoEv
    /\ progressTracker = [k \in Keys |-> NoJob]
    /\ jobs = [j \in Jobs |-> NoJobRec]
    /\ creq = [j \in Jobs |-> IdleCreq]
    /\ monitor = [j \in Jobs |-> FALSE]
    /\ mtick = [j \in Jobs |-> [m \in MSlots |-> IdleMTick]]
    /\ query = IdleQuery
    /\ stopall = "idle"
    /\ stopsIssued = [j \in Jobs |-> [i \in 1..2 |-> 0]]
    /\ runningJobs = NoVideoJob
    /\ vreq = [c \in Calls |-> IdleVReq]
    /\ checkInterval = [c \in Calls |-> FALSE]
    /\ vtick = [c \in Calls |-> IdleVTick]
    /\ vstop = IdleVTick

\* ------------------------------------------------------------ the clock
ClockAdvance ==
    /\ now < MaxClock
    /\ now' = now + 1
    /\ ev' = NoEv
    /\ UNCHANGED <<directory, reconVars, jobVars, videoVars>>

\* ------------------------------------------------------------ boot and shutdown
\* server.listen callback: setTimeout(startPermanentOnlineSystem, 15000).
\* startPermanentOnlineSystem clears a set interval and sets a new one.
StartPermanentOnlineSystem ==
    /\ ~booted
    /\ booted' = TRUE
    /\ CanSetInterval(permanentOnlineInterval)
    /\ permanentOnlineInterval' = StartTimer(permanentOnlineInterval)
    /\ ev' = [NoEv EXCEPT !.resp = "boot"]
    /\ UNCHANGED <<jobVars, videoVars, now, directory, down, permanentOnlineBots, botHeap, rtick>>

\* process.on('SIGTERM' / 'SIGINT'): stopPermanentOnlineSystem clears the
\* interval and the map; ticks that are awaiting a response go on.
StopPermanentOnlineSystem ==
    /\ ~down
    /\ down' = TRUE
    /\ permanentOnlineInterval' = StopTimer(permanentOnlineInterval)
    /\ permanentOnlineBots' = [w \in Workers |-> NoObj]
    /\ botHeap' = Collect(botHeap, permanentOnlineBots', rtick)
    /\ ev' = [NoEv EXCEPT !.resp = "signal"]
    /\ UNCHANGED <<jobVars, videoVars, now, directory, booted, rtick>>

\* POST /api/system/permanent-online/start (part_000 lines 1116-1127).
\* mode tells whether a timer was set when the call came.
ApiStartPermanentOnline ==
    /\ CanSetInterval(permanentOnlineInterval)
    /\ permanentOnlineInterval' = StartTimer(permanentOnlineInterval)
    /\ ev' = [NoEv EXCEPT !.resp = "api_start",
                          !.mode = IF permanentOnlineInterval.handle # 0 THEN "restart" ELSE "start"]
    /\ UNCHANGED <<jobVars, videoVars, now, directory, booted, down, permanentOnlineBots, botHeap, rtick>>

\* POST /api/system/permanent-online/stop (part_000 lines 1129-1140).
ApiStopPermanentOnline ==
    /\ permanentOnlineInterval' = StopTimer(permanentOnlineInterval)
    /\ permanentOnlineBots' = [w \in Workers |-> NoObj]
    /\ botHeap' = Collect(botHeap, permanentOnlineBots', rtick)
    /\ ev' = [NoEv EXCEPT !.resp = "api_stop"]
    /\ UNCHANGED <<jobVars, videoVars, now, directory, booted, down, rtick>>

\* ------------------------------------------------------------ reconciliation tick
\* What the for loop does once instances[idx] is dealt with: the GET /status
\* of the next instance, or the end of the tick.
Advance(idx) ==
    IF idx < Len(directory)
    THEN [IdleTick EXCEPT !.pc = "status", !.idx = idx + 1]
    ELSE IdleTick

\* A catch block that lets the error leave the for loop: the outer catch of
\* line 535 ends the tick.
AfterCaughtRethrown(idx) == IdleTick

\* The catch blocks of lines 480-482 and 515-531 end normally: the for loop
\* goes on with the next instance.
AfterCaught(idx) == Advance(idx)

AdvanceReq(idx) == IF idx < Len(directory) THEN "GetStatus" ELSE "none"

AdvanceTo(idx) == IF idx < Len(directory) THEN directory[idx + 1].id ELSE "none"

\* The interval callback: the tick body starts whether or not an earlier tick
\* is still awaiting; it first awaits getInstancesForSystem().
ReconTimerFire(t) ==
    /\ permanentOnlineInterval.active # {}
    /\ t \in TickSlots(directory)
    /\ rtick[t].pc = "idle"
    /\ \A u \in RTicks : u < t => rtick[u].pc # "idle"
    /\ rtick' = [rtick EXCEPT ![t] = [IdleTick EXCEPT !.pc = "list"]]
    /\ ev' = Ev(t, "none", "timer", "List", "directory", "none")
    /\ UNCHANGED <<jobVars, videoVars, now, directory, booted, down, permanentOnlineInterval, permanentOnlineBots, botHeap>>

\* getInstancesForSystem() answered: [] (also on any error) ends the tick,
\* otherwise the loop starts with GET instances[1]/status.
ReconListResp(t, empty) ==
    /\ rtick[t].pc = "list"
    /\ rtick' = [rtick EXCEPT ![t] = IF empty THEN IdleTick ELSE Advance(0)]
    /\ ev' = IF empty
             THEN Ev(t, "none", "list_empty", "none", "none", "none")
             ELSE Ev(t, "none", "list_ok", AdvanceReq(0), AdvanceTo(0), "none")
    /\ UNCHANGED <<jobVars, videoVars, now, directory, booted, down, permanentOnlineInterval, permanentOnlineBots, botHeap>>

\* Line 463: the idle bot is started only when the instance is enabled.
IdleStartWanted(body, en) == body \in {"idle", "nofield"} /\ en

\* GET /status answered 2xx. body: "running" / "idle" (running true / false),
\* "nofield" (an object without running), "null" (no object: botStatus.running
\* throws at line 463 and the catch of line 485 takes over).
ReconStatusOk(t, body) ==
    LET w == directory[rtick[t].idx].id
        has == permanentOnlineBots[w] # NoObj
        o == IF has THEN permanentOnlineBots[w] ELSE Alloc(botHeap)
        heap1 == IF has THEN botHeap ELSE [botHeap EXCEPT ![o] = NewBotInfo(w, now)]
        heap2 == [heap1 EXCEPT ![o].lastSeen = now]
        tk == IF body = "null"
              THEN [pc |-> "start_rec", idx |-> rtick[t].idx, botInfo |-> o, fresh |-> FALSE, starts |-> 1]
              ELSE IF IdleStartWanted(body, directory[rtick[t].idx].enabled)
              THEN [pc |-> "start_idle", idx |-> rtick[t].idx, botInfo |-> o, fresh |-> FALSE, starts |-> 1]
              ELSE Advance(rtick[t].idx)
    IN  /\ rtick[t].pc = "status"
        /\ permanentOnlineBots' = [permanentOnlineBots EXCEPT ![w] = o]
        /\ rtick' = [rtick EXCEPT ![t] = tk]
        /\ botHeap' = Collect(heap2, permanentOnlineBots', rtick')
        /\ ev' = [(IF body = "null"
                   THEN Ev(t, w, "status_null", "Start", w, "permanent_recovery")
                   ELSE IF IdleStartWanted(body, directory[rtick[t].idx].enabled)
                   THEN Ev(t, w, "status_ok", "Start", w, "permanent")
                   ELSE Ev(t, w, "status_ok", AdvanceReq(rtick[t].idx), AdvanceTo(rtick[t].idx), "none"))
                  EXCEPT !.body = body]
        /\ UNCHANGED <<jobVars, videoVars, now, directory, booted, down, permanentOnlineInterval>>

\* GET /status failed (timeout, transport error, non-2xx): lines 485-507.
\* botInfo is the map's object or a new one that is not in the map yet.
ReconStatusFail(t) ==
    LET w == directory[rtick[t].idx].id
        has == permanentOnlineBots[w] # NoObj
        o == IF has THEN permanentOnlineBots[w] ELSE Alloc(botHeap)
        heap1 == IF has THEN botHeap ELSE [botHeap EXCEPT ![o] = NewBotInfo(w, now)]
    IN  /\ rtick[t].pc = "status"
        /\ rtick' = [rtick EXCEPT ![t] =
                        [pc |-> "start_rec", idx |-> rtick[t].idx, botInfo |-> o, fresh |-> ~has,
                         starts |-> 1]]
        /\ botHeap' = Collect(heap1, permanentOnlineBots, rtick')
        /\ ev' = Ev(t, w, "status_fail", "Start", w, "permanent_recovery")
        /\ UNCHANGED <<jobVars, videoVars, now, directory, booted, down, permanentOnlineInterval, permanentOnlineBots>>

\* Line 478: botInfo.restartCount++.
AfterIdleStart(info) == [info EXCEPT !.restartCount = @ + 1]

\* POST /start of the idle path answered 2xx.
ReconIdleStartOk(t) ==
    LET w == directory[rtick[t].idx].id
        o == rtick[t].botInfo
    IN  /\ rtick[t].pc = "start_idle"
        /\ botHeap[o].restartCount < MaxRestartCount
        /\ rtick' = [rtick EXCEPT ![t] = Advance(rtick[t].idx)]
        /\ botHeap' = Collect([botHeap EXCEPT ![o] = AfterIdleStart(@)], permanentOnlineBots, rtick')
        /\ ev' = Ev(t, w, "idle_start_ok", AdvanceReq(rtick[t].idx), AdvanceTo(rtick[t].idx), "none")
        /\ UNCHANGED <<jobVars, videoVars, now, directory, booted, down, permanentOnlineInterval, permanentOnlineBots>>

\* POST /start of the idle path failed: lines 480-482 only log.
ReconIdleStartFail(t) ==
    LET w == directory[rtick[t].idx].id
    IN  /\ rtick[t].pc = "start_idle"
        /\ rtick' = [rtick EXCEPT ![t] = AfterCaught(rtick[t].idx)]
        /\ botHeap' = Collect(botHeap, permanentOnlineBots, rtick')
        /\ ev' = Ev(t, w, "idle_start_fail", AdvanceReq(rtick[t].idx), AdvanceTo(rtick[t].idx), "none")
        /\ UNCHANGED <<jobVars, videoVars, now, directory, booted, down, permanentOnlineInterval, permanentOnlineBots>>

\* Lines 509-510: botInfo.restartCount++; botInfo.lastSeen = now.
AfterRecoveryStart(info, clock) ==
    [info EXCEPT !.restartCount = @ + 1, !.lastSeen = clock]

\* POST /start of the unreachable path answered 2xx: lines 509-513.
ReconRecStartOk(t) ==
    LET w == directory[rtick[t].idx].id
        o == rtick[t].botInfo
    IN  /\ rtick[t].pc = "start_rec"
        /\ botHeap[o].restartCount < MaxRestartCount
        /\ permanentOnlineBots' = [permanentOnlineBots EXCEPT ![w] = o]
        /\ rtick' = [rtick EXCEPT ![t] = Advance(rtick[t].idx)]
        /\ botHeap' = Collect([botHeap EXCEPT ![o] = AfterRecoveryStart(@, now)],
                              permanentOnlineBots', rtick')
        /\ ev' = Ev(t, w, "rec_start_ok", AdvanceReq(rtick[t].idx), AdvanceTo(rtick[t].idx), "none")
        /\ UNCHANGED <<jobVars, videoVars, now, directory, booted, down, permanentOnlineInterval>>

\* Lines 528-529: botInfo.critical = true; botInfo.lastError = message.
AfterRecoveryFailure(info) == [info EXCEPT !.critical = TRUE, !.lastError = TRUE]

\* POST /start of the unreachable path failed: lines 515-531. The botInfo of
\* line 518 is the map's object or a new one; the one of line 489 is dropped.
ReconRecStartFail(t) ==
    LET w == directory[rtick[t].idx].id
        has == permanentOnlineBots[w] # NoObj
        o == IF has THEN permanentOnlineBots[w] ELSE Alloc(botHeap)
        heap1 == IF has THEN botHeap ELSE [botHeap EXCEPT ![o] = NewCriticalBotInfo(w, now)]
    IN  /\ rtick[t].pc = "start_rec"
        /\ permanentOnlineBots' = [permanentOnlineBots EXCEPT ![w] = o]
        /\ rtick' = [rtick EXCEPT ![t] = AfterCaught(rtick[t].idx)]
        /\ botHeap' = Collect([heap1 EXCEPT ![o] = AfterRecoveryFailure(@)],
                              permanentOnlineBots', rtick')
        /\ ev' = Ev(t, w, "rec_start_fail", AdvanceReq(rtick[t].idx), AdvanceTo(rtick[t].idx), "none")
        /\ UNCHANGED <<jobVars, videoVars, now, directory, booted, down, permanentOnlineInterval>>

StatusBodies == {"running", "idle", "nofield", "null"}

ReconNext ==
    \/ ClockAdvance
    \/ StartPermanentOnlineSystem
    \/ StopPermanentOnlineSystem
    \/ \E t \in RTicks : ReconTimerFire(t)
    \/ \E t \in RTicks, empty \in BOOLEAN : ReconListResp(t, empty)
    \/ \E t \in RTicks, body \in StatusBodies : ReconStatusOk(t, body)
    \/ \E t \in RTicks : ReconStatusFail(t)
    \/ \E t \in RTicks : ReconIdleStartOk(t)
    \/ \E t \in RTicks : ReconIdleStartFail(t)
    \/ \E t \in RTicks : ReconRecStartOk(t)
    \/ \E t \in RTicks : ReconRecStartFail(t)

\* ------------------------------------------------------------ POST /api/start-all
\* Lines 1376-1448: the instances are fetched, the job record is put in the
\* tracker and the first POST /start is issued.
CreateJob(j, cur, tgt) ==
    LET en == EnabledInstances(directory)
        job == NewJob(now, cur, tgt, directory)
    IN  /\ creq[j].pc = "idle"
        /\ ~jobs[j].created
        /\ \A i \in Jobs : i < j => jobs[i].created
        /\ IF Len(en) = 0
           THEN /\ ev' = JEv(0, 0, "none", "create_rejected", "none", "none", "none", 0, 0)
                /\ UNCHANGED <<progressTracker, jobs, creq>>
           ELSE /\ jobs' = [jobs EXCEPT ![j] = job]
                /\ progressTracker' = [progressTracker EXCEPT ![now] = j]
                /\ creq' = [creq EXCEPT ![j] =
                               [pc |-> "start", j |-> j, idx |-> 1, finalTarget |-> FinalTarget(cur, tgt),
                                cur |-> cur, tgt |-> tgt]]
                /\ ev' = JEv(0, j, "none", "create", "Start", en[1].id, "persistent",
                             FinalTarget(cur, tgt), 0)
        /\ UNCHANGED <<now, directory, reconVars, videoVars, monitor, mtick, query, stopall, stopsIssued>>

\* Lines 1449-1470: one POST /start answered. progressTracker.get(jobId) is
\* undefined once stop-all has cleared the tracker: job.instances then throws
\* in the try and in the catch, and the handler answers 500 without starting
\* the monitor. After the last instance startEnhancedMonitoring sets the timer.
CreateStartResp(j, ok) ==
    LET o == progressTracker[jobs[j].key]
        i == creq[j].idx
        last == i = Len(jobs[j].instances)
    IN  /\ creq[j].pc = "start"
        /\ IF o = NoJob
           THEN /\ creq' = [creq EXCEPT ![j].pc = "done", ![j].idx = 0]
                /\ ev' = JEv(0, j, jobs[j].instances[i].id, "create_error", "none", "none", "none", 0, 0)
                /\ UNCHANGED <<jobs, monitor>>
           ELSE /\ jobs' = [jobs EXCEPT ![o].instances[i].status = IF ok THEN "running" ELSE "failed"]
                /\ creq' = IF last THEN [creq EXCEPT ![j].pc = "done", ![j].idx = 0]
                                   ELSE [creq EXCEPT ![j].idx = i + 1]
                /\ monitor' = IF last THEN [monitor EXCEPT ![j] = TRUE] ELSE monitor
                /\ ev' = IF last
                         THEN JEv(0, j, jobs[j].instances[i].id, IF ok THEN "start_ok" ELSE "start_fail",
                                  "none", "none", "none", 0, 0)
                         ELSE JEv(0, j, jobs[j].instances[i].id, IF ok THEN "start_ok" ELSE "start_fail",
                                  "Start", jobs[j].instances[i + 1].id, "persistent", creq[j].finalTarget, 0)
        /\ UNCHANGED <<now, directory, reconVars, videoVars, progressTracker, mtick, query, stopall, stopsIssued>>

\* ------------------------------------------------------------ updateInstanceStatuses
\* The next instance, from position `from` on, whose status is 'running'
\* (lines 1099-1100, 1131-1132); 0 when the loop is over.
NextRunning(insts, from) ==
    LET S == {i \in from..Len(insts) : insts[i].status = "running"}
    IN  IF S = {} THEN 0 ELSE CHOOSE i \in S : \A k \in S : i <= k

RECURSIVE SumSuccess(_, _)
SumSuccess(insts, n) == IF n = 0 THEN 0 ELSE insts[n].success + SumSuccess(insts, n - 1)

RECURSIVE SumRequests(_, _)
SumRequests(insts, n) == IF n = 0 THEN 0 ELSE insts[n].requests + SumRequests(insts, n - 1)

\* Lines 1121-1122.
\* Totals that are left as they were.
TotalsNotRefreshed(job) == job

Totals(job) ==
    [job EXCEPT !.totalSuccess = SumSuccess(job.instances, Len(job.instances)),
                !.totalRequests = SumRequests(job.instances, Len(job.instances))]

\* Lines 1109-1117: the instance after its GET /status.
StatusResult(inst, res) ==
    IF res.ok
    THEN [inst EXCEPT !.success = res.success, !.requests = res.reqs,
                      !.status = IF res.running THEN "running" ELSE "stopped"]
    ELSE [inst EXCEPT !.status = "offline"]

\* ------------------------------------------------------------ startEnhancedMonitoring
TicksInFlight(c) == Cardinality({m \in MSlots : mtick[c][m].pc \in {"upd", "stats"}})

\* The interval callback, lines 1067-1073 and the start of
\* updateInstanceStatuses: the timer is cleared when the job is gone or not
\* running, else the first running instance is polled (or, with none, the
\* totals are written and the stats are requested).
MonTimerFire(c, m) ==
    LET o == progressTracker[jobs[c].key]
        k == NextRunning(jobs[o].instances, 1)
    IN  /\ monitor[c]
        /\ m \in MonSlots(jobs[c])
        /\ mtick[c][m].pc = "idle"
        /\ \A u \in MonSlots(jobs[c]) : u < m => mtick[c][u].pc # "idle"
        /\ IF o = NoJob \/ ~jobs[o].isRunning
           THEN /\ monitor' = [monitor EXCEPT ![c] = FALSE]
                /\ ev' = JEv(m, c, "none", "timer_cleared", "none", "none", "none", 0, 0)
                /\ UNCHANGED <<jobs, mtick>>
           ELSE /\ jobs[o].checkCount + TicksInFlight(c) < MaxCheckCount
                /\ IF k # 0
                   THEN /\ mtick' = [mtick EXCEPT ![c][m] = [pc |-> "upd", idx |-> k, job |-> o]]
                        /\ ev' = JEv(m, c, "none", "timer", "GetStatus", jobs[o].instances[k].id, "none", 0, 0)
                        /\ UNCHANGED jobs
                   ELSE /\ mtick' = [mtick EXCEPT ![c][m] = [pc |-> "stats", idx |-> 0, job |-> o]]
                        /\ jobs' = [jobs EXCEPT ![o] = Totals(@)]
                        /\ ev' = JEv(m, c, "none", "timer", "Stats", "none", "none", 0, 0)
                /\ UNCHANGED monitor
        /\ UNCHANGED <<now, directory, reconVars, videoVars, progressTracker, creq, query, stopall, stopsIssued>>

\* One GET /status of updateInstanceStatuses answered (lines 1109-1124): the
\* next running instance is polled, or the totals are written, the job is
\* set in the tracker and the tick goes on to getTikTokVideoStats.
MonUpdResp(c, m, res) ==
    LET o == mtick[c][m].job
        i == mtick[c][m].idx
        insts == [jobs[o].instances EXCEPT ![i] = StatusResult(@, res)]
        k == NextRunning(insts, i + 1)
    IN  /\ mtick[c][m].pc = "upd"
        /\ IF k # 0
           THEN /\ jobs' = [jobs EXCEPT ![o].instances = insts]
                /\ mtick' = [mtick EXCEPT ![c][m].idx = k]
                /\ ev' = JEv(m, o, jobs[o].instances[i].id, IF res.ok THEN "status_ok" ELSE "status_fail",
                             "GetStatus", jobs[o].instances[k].id, "none", 0, 0)
                /\ UNCHANGED progressTracker
           ELSE /\ jobs' = [jobs EXCEPT ![o] = Totals([@ EXCEPT !.instances = insts])]
                /\ progressTracker' = [progressTracker EXCEPT ![jobs[o].key] = o]
                /\ mtick' = [mtick EXCEPT ![c][m] = [pc |-> "stats", idx |-> 0, job |-> o]]
                /\ ev' = JEv(m, o, jobs[o].instances[i].id, IF res.ok THEN "status_ok" ELSE "status_fail",
                             "Stats", "none", "none", 0, 0)
        /\ UNCHANGED <<now, directory, reconVars, videoVars, creq, monitor, query, stopall, stopsIssued>>

\* getTikTokVideoStats resolves with the page's views, and with
\* getFallbackStats() (views: 0) on every failure (lines 643-664, 775-785).
StatsViews(res) == IF res.ok THEN res.views ELSE 0

\* A goal test that only an exact hit passes.
GoalReachedExactly(views, target) == views = target

\* Line 1082: the goal is reached.
GoalReached(views, target) == views >= target

\* Lines 1076-1080.
AfterStats(job, views) == [job EXCEPT !.currentViews = views, !.checkCount = @ + 1]

\* getTikTokVideoStats answered, lines 1075-1087, and the start of stopJobBots
\* (not awaited by the tick): the first running instance gets POST /stop.
MonStatsResp(c, m, res) ==
    LET o == mtick[c][m].job
        views == StatsViews(res)
        job1 == AfterStats(jobs[o], views)
        done == GoalReached(views, jobs[c].targetViews)
        k == NextRunning(job1.instances, 1)
    IN  /\ mtick[c][m].pc = "stats"
        /\ progressTracker' = [progressTracker EXCEPT ![jobs[o].key] = o]
        /\ jobs' = [jobs EXCEPT ![o] = IF done THEN [job1 EXCEPT !.isRunning = FALSE] ELSE job1]
        /\ monitor' = IF done THEN [monitor EXCEPT ![c] = FALSE] ELSE monitor
        /\ IF done /\ k # 0
           THEN /\ mtick' = [mtick EXCEPT ![c][m] = [pc |-> "stop", idx |-> k, job |-> o]]
                /\ stopsIssued' = [stopsIssued EXCEPT ![o][k] = IF @ < 2 THEN @ + 1 ELSE @]
                /\ ev' = JEv(m, o, "none", IF res.ok THEN "stats_ok" ELSE "stats_fail",
                             "Stop", job1.instances[k].id, "none", 0, 0)
           ELSE /\ mtick' = [mtick EXCEPT ![c][m] = IdleMTick]
                /\ ev' = JEv(m, o, "none", IF res.ok THEN "stats_ok" ELSE "stats_fail",
                             IF done THEN "StopDone" ELSE "none", "none", "none", 0, 0)
                /\ UNCHANGED stopsIssued
        /\ UNCHANGED <<now, directory, reconVars, videoVars, creq, query, stopall>>

\* One POST /stop of stopJobBots answered (lines 1140-1148): the next running
\* instance gets its POST /stop, or the job is written back not running.
MonStopResp(c, m, ok) ==
    LET o == mtick[c][m].job
        i == mtick[c][m].idx
        insts == IF ok THEN [jobs[o].instances EXCEPT ![i].status = "stopped"] ELSE jobs[o].instances
        k == NextRunning(insts, i + 1)
    IN  /\ mtick[c][m].pc = "stop"
        /\ IF k # 0
           THEN /\ jobs' = [jobs EXCEPT ![o].instances = insts]
                /\ mtick' = [mtick EXCEPT ![c][m].idx = k]
                /\ stopsIssued' = [stopsIssued EXCEPT ![o][k] = IF @ < 2 THEN @ + 1 ELSE @]
                /\ ev' = JEv(m, o, jobs[o].instances[i].id, IF ok THEN "stop_ok" ELSE "stop_fail",
                             "Stop", jobs[o].instances[k].id, "none", 0, 0)
                /\ UNCHANGED progressTracker
           ELSE /\ jobs' = [jobs EXCEPT ![o].instances = insts, ![o].isRunning = FALSE]
                /\ progressTracker' = [progressTracker EXCEPT ![jobs[o].key] = o]
                /\ mtick' = [mtick EXCEPT ![c][m] = IdleMTick]
                /\ ev' = JEv(m, o, jobs[o].instances[i].id, IF ok THEN "stop_ok" ELSE "stop_fail",
                             "StopDone", "none", "none", 0, 0)
                /\ UNCHANGED stopsIssued
        /\ UNCHANGED <<now, directory, reconVars, videoVars, creq, monitor, query, stopall>>

\* ------------------------------------------------------------ GET /api/live-progress
\* Line 1206.
Progress(job) == job.currentViews - job.startViews

\* Lines 1191-1204: 'No active job found' without a tracker entry, else
\* updateInstanceStatuses (awaited) and then the answer.
LiveProgress(key) ==
    LET o == progressTracker[key]
        k == NextRunning(jobs[o].instances, 1)
    IN  /\ query.pc = "idle"
        /\ IF o = NoJob
           THEN /\ ev' = [JEv(0, 0, "none", "not_found", "none", "none", "none", 0, 0)
                              EXCEPT !.key = key]
                /\ UNCHANGED <<jobs, query>>
           ELSE IF k # 0
           THEN /\ query' = [pc |-> "upd", idx |-> k, job |-> o]
                /\ ev' = JEv(0, o, "none", "query", "GetStatus", jobs[o].instances[k].id, "none", 0, 0)
                /\ UNCHANGED jobs
           ELSE /\ jobs' = [jobs EXCEPT ![o] = Totals(@)]
                /\ ev' = JEv(0, o, "none", "progress", "none", "none", "none", 0, Progress(jobs[o]))
                /\ UNCHANGED query
        /\ UNCHANGED <<now, directory, reconVars, videoVars, progressTracker, creq, monitor, mtick, stopall, stopsIssued>>

\* One GET /status of the handler's updateInstanceStatuses answered.
QueryUpdResp(res) ==
    LET o == query.job
        i == query.idx
        insts == [jobs[o].instances EXCEPT ![i] = StatusResult(@, res)]
        k == NextRunning(insts, i + 1)
    IN  /\ query.pc = "upd"
        /\ IF k # 0
           THEN /\ jobs' = [jobs EXCEPT ![o].instances = insts]
                /\ query' = [query EXCEPT !.idx = k]
                /\ ev' = JEv(0, o, jobs[o].instances[i].id, IF res.ok THEN "status_ok" ELSE "status_fail",
                             "GetStatus", jobs[o].instances[k].id, "none", 0, 0)
                /\ UNCHANGED progressTracker
           ELSE /\ jobs' = [jobs EXCEPT ![o] = Totals([@ EXCEPT !.instances = insts])]
                /\ progressTracker' = [progressTracker EXCEPT ![jobs[o].key] = o]
                /\ query' = IdleQuery
                /\ ev' = JEv(0, o, jobs[o].instances[i].id, "progress", "none", "none", "none", 0,
                             Progress(jobs[o]))
        /\ UNCHANGED <<now, directory, reconVars, videoVars, creq, monitor, mtick, stopall, stopsIssued>>

\* ------------------------------------------------------------ POST /api/stop-all
\* Lines 1489-1511: POST /stop to every enabled instance, all at once.
StopAllBegin ==
    /\ stopall = "idle"
    /\ stopall' = "stops"
    /\ ev' = JEv(0, 0, "none", "stop_all", "StopAll", "none", "none", 0, 0)
    /\ UNCHANGED <<now, directory, reconVars, videoVars, progressTracker, jobs, creq, monitor, mtick, query, stopsIssued>>

\* Lines 1513-1523: every stop has settled; progressTracker.clear().
StopAllSettled ==
    /\ stopall = "stops"
    /\ stopall' = "idle"
    /\ progressTracker' = [k \in Keys |-> NoJob]
    /\ ev' = JEv(0, 0, "none", "stop_all_settled", "none", "none", "none", 0, 0)
    /\ UNCHANGED <<now, directory, reconVars, videoVars, jobs, creq, monitor, mtick, query, stopsIssued>>

JobNext ==
    \/ \E j \in FirstJob, cur \in CurrentViewsInputs, tgt \in TargetViewsInputs : CreateJob(j, cur, tgt)
    \/ \E j \in Jobs, ok \in BOOLEAN : CreateStartResp(j, ok)
    \/ \E c \in Jobs, m \in MSlots : MonTimerFire(c, m)
    \/ \E c \in Jobs, m \in MSlots, res \in StatusReplies : MonUpdResp(c, m, res)
    \/ \E c \in Jobs, m \in MSlots, res \in StatsReplies : MonStatsResp(c, m, res)
    \/ \E c \in Jobs, m \in MSlots, ok \in BOOLEAN : MonStopResp(c, m, ok)
    \/ \E key \in Keys : LiveProgress(key)
    \/ \E res \in StatusReplies : QueryUpdResp(res)
    \/ StopAllBegin
    \/ StopAllSettled

\* ------------------------------------------------------------ part_002 POST /api/start-all
\* part_002 lines 531-579: the instances are fetched, the record of the video
\* is (over)written and the first POST /start is issued.
VStartAll(c, cur, tgt) ==
    LET en == EnabledInstances(directory)
    IN  /\ vreq[c].pc = "idle"
        /\ \A b \in Calls : b < c => vreq[b].pc # "idle"
        /\ IF Len(en) = 0
           THEN /\ ev' = JEv(0, c, "none", "create_rejected", "none", "none", "none", 0, 0)
                /\ UNCHANGED <<runningJobs, vreq>>
           ELSE /\ runningJobs' = NewVideoJob(c, cur, tgt)
                /\ vreq' = [vreq EXCEPT ![c] = [pc |-> "start", idx |-> 1,
                                                finalTarget |-> FinalTarget(cur, tgt)]]
                /\ ev' = JEv(0, c, "none", "create", "Start", en[1].id, "persistent",
                             FinalTarget(cur, tgt), 0)
        /\ UNCHANGED <<now, directory, reconVars, jobVars, checkInterval, vtick, vstop>>

\* part_002 lines 570-584: one POST /start answered; after the last instance
\* startVideoMonitoring sets its interval.
VStartResp(c, ok) ==
    LET en == EnabledInstances(directory)
        i == vreq[c].idx
        last == i = Len(en)
    IN  /\ vreq[c].pc = "start"
        /\ vreq' = IF last THEN [vreq EXCEPT ![c].pc = "done", ![c].idx = 0]
                           ELSE [vreq EXCEPT ![c].idx = i + 1]
        /\ checkInterval' = IF last THEN [checkInterval EXCEPT ![c] = TRUE] ELSE checkInterval
        /\ ev' = IF last
                 THEN JEv(0, c, en[i].id, IF ok THEN "start_ok" ELSE "start_fail",
                          "none", "none", "none", 0, 0)
                 ELSE JEv(0, c, en[i].id, IF ok THEN "start_ok" ELSE "start_fail",
                          "Start", en[i + 1].id, "persistent", vreq[c].finalTarget, 0)
        /\ UNCHANGED <<now, directory, reconVars, jobVars, runningJobs, vtick, vstop>>

\* ------------------------------------------------------------ part_002 startVideoMonitoring
\* part_002 lines 217-226: the interval callback clears the interval when
\* the video has no record or is not running, else reads the stats.
VTimerFire(c) ==
    /\ checkInterval[c]
    /\ vtick[c].pc = "idle"
    /\ IF ~runningJobs.exists \/ ~runningJobs.isRunning
       THEN /\ checkInterval' = [checkInterval EXCEPT ![c] = FALSE]
            /\ ev' = JEv(c, c, "none", "timer_cleared", "none", "none", "none", 0, 0)
            /\ UNCHANGED vtick
       ELSE /\ vtick' = [vtick EXCEPT ![c].pc = "stats"]
            /\ ev' = JEv(c, c, "none", "timer", "Stats", "none", "none", 0, 0)
            /\ UNCHANGED checkInterval
    /\ UNCHANGED <<now, directory, reconVars, jobVars, runningJobs, vreq, vstop>>

\* part_002 lines 243-246.
Completed(job, clock) ==
    [job EXCEPT !.isRunning = FALSE, !.completedAt = <<clock>>, !.status = "COMPLETED"]

\* part_002 lines 227-251: the stats are answered (views 0 on a failure,
\* lines 125-172), currentViews is written; with the target of this call
\* reached the record is completed and the instances are fetched.
VStatsResp(c, res) ==
    LET views == StatsViews(res)
        job1 == [runningJobs EXCEPT !.currentViews = views]
        done == GoalReached(views, vreq[c].finalTarget)
    IN  /\ vtick[c].pc = "stats"
        /\ runningJobs' = IF done THEN Completed(job1, now) ELSE job1
        /\ vtick' = [vtick EXCEPT ![c].pc = IF done THEN "list" ELSE "idle"]
        /\ ev' = JEv(c, c, "none", IF res.ok THEN "stats_ok" ELSE "stats_fail",
                     IF done THEN "List" ELSE "none", "none", "none", 0, 0)
        /\ UNCHANGED <<now, directory, reconVars, jobVars, vreq, checkInterval, vstop>>

\* part_002 lines 250-266: getInstancesFromAuthServer answered ([] on an
\* error): the first enabled instance gets POST /stop, or the interval is
\* cleared.
VStopList(c, empty) ==
    LET en == IF empty THEN <<>> ELSE EnabledInstances(directory)
    IN  /\ vtick[c].pc = "list"
        /\ IF Len(en) = 0
           THEN /\ vtick' = [vtick EXCEPT ![c] = IdleVTick]
                /\ checkInterval' = [checkInterval EXCEPT ![c] = FALSE]
                /\ ev' = JEv(c, c, "none", "list_empty", "StopDone", "none", "none", 0, 0)
           ELSE /\ vtick' = [vtick EXCEPT ![c] = [pc |-> "stop", idx |-> 1]]
                /\ ev' = JEv(c, c, "none", "list_ok", "Stop", en[1].id, "none", 0, 0)
                /\ UNCHANGED checkInterval
        /\ UNCHANGED <<now, directory, reconVars, jobVars, runningJobs, vreq, vstop>>

\* part_002 lines 254-265: one POST /stop answered (failures are ignored).
VStopResp(c, ok) ==
    LET en == EnabledInstances(directory)
        i == vtick[c].idx
    IN  /\ vtick[c].pc = "stop"
        /\ IF i < Len(en)
           THEN /\ vtick' = [vtick EXCEPT ![c].idx = i + 1]
                /\ ev' = JEv(c, c, en[i].id, IF ok THEN "stop_ok" ELSE "stop_fail",
                             "Stop", en[i + 1].id, "none", 0, 0)
                /\ UNCHANGED checkInterval
           ELSE /\ vtick' = [vtick EXCEPT ![c] = IdleVTick]
                /\ checkInterval' = [checkInterval EXCEPT ![c] = FALSE]
                /\ ev' = JEv(c, c, en[i].id, IF ok THEN "stop_ok" ELSE "stop_fail",
                             "StopDone", "none", "none", 0, 0)
        /\ UNCHANGED <<now, directory, reconVars, jobVars, runningJobs, vreq, vstop>>

\* ------------------------------------------------------------ part_002 POST /api/stop-all
\* part_002 lines 608-613: every record is set not running and STOPPED.
Stopped(job) ==
    IF job.exists THEN [job EXCEPT !.isRunning = FALSE, !.status = "STOPPED"] ELSE job

\* part_002 lines 601-621: the instances are fetched ([] on an error), every
\* job is stopped and the first enabled instance gets POST /stop.
VStopAll(empty) ==
    LET en == IF empty THEN <<>> ELSE EnabledInstances(directory)
    IN  /\ vstop.pc = "idle"
        /\ runningJobs' = Stopped(runningJobs)
        /\ IF Len(en) = 0
           THEN /\ ev' = JEv(0, 0, "none", "stop_all", "none", "none", "none", 0, 0)
                /\ UNCHANGED vstop
           ELSE /\ vstop' = [pc |-> "stop", idx |-> 1]
                /\ ev' = JEv(0, 0, "none", "stop_all", "Stop", en[1].id, "none", 0, 0)
        /\ UNCHANGED <<now, directory, reconVars, jobVars, vreq, checkInterval, vtick>>

\* part_002 lines 615-626: one POST /stop answered; after the last the
\* handler responds.
VStopAllResp(ok) ==
    LET en == EnabledInstances(directory)
        i == vstop.idx
    IN  /\ vstop.pc = "stop"
        /\ IF i < Len(en)
           THEN /\ vstop' = [vstop EXCEPT !.idx = i + 1]
                /\ ev' = JEv(0, 0, en[i].id, IF ok THEN "stop_ok" ELSE "stop_fail",
                             "Stop", en[i + 1].id, "none", 0, 0)
           ELSE /\ vstop' = IdleVTick
                /\ ev' = JEv(0, 0, en[i].id, IF ok THEN "stop_ok" ELSE "stop_fail",
                             "none", "none", "none", 0, 0)
        /\ UNCHANGED <<now, directory, reconVars, jobVars, runningJobs, vreq, checkInterval, vtick>>

VideoNext ==
    \/ \E c \in Calls, cur \in CurrentViewsInputs, tgt \in TargetViewsInputs : VStartAll(c, cur, tgt)
    \/ \E c \in Calls, ok \in BOOLEAN : VStartResp(c, ok)
    \/ \E c \in Calls : VTimerFire(c)
    \/ \E c \in Calls, res \in StatsReplies : VStatsResp(c, res)
    \/ \E c \in Calls, empty \in BOOLEAN : VStopList(c, empty)
    \/ \E c \in Calls, ok \in BOOLEAN : VStopResp(c, ok)
    \/ \E empty \in BOOLEAN : VStopAll(empty)
    \/ \E ok \in BOOLEAN : VStopAllResp(ok)

vars == <<now, directory, ev, reconVars, jobVars, videoVars>>

\* Two POST /api/start-all requests for one video, handled one after the
\* other or at the same time, at the same or at different clock values.
TwoJobsNext ==
    \/ ClockAdvance
    \/ \E j \in Jobs, cur \in CurrentViewsInputs, tgt \in TargetViewsInputs : CreateJob(j, cur, tgt)
    \/ \E j \in Jobs, ok \in BOOLEAN : CreateStartResp(j, ok)

ReconSpec == Init /\ [][ReconNext]_vars

TwoJobsSpec == Init /\ [][TwoJobsNext]_vars

JobSpec == Init /\ [][JobNext]_vars

VideoSpec == Init /\ [][VideoNext]_vars

\* ------------------------------------------------------------ a job running to its goal
\* The metric from some point on: the read that brings checkCount to
\* MaxCheckCount, and every read after it, returns the goal or more.
AtGoalFromSomePointOn(c, m, res) ==
    (mtick[c][m].pc = "stats" /\ jobs[mtick[c][m].job].checkCount + 1 >= MaxCheckCount) =>
        StatsViews(res) >= jobs[c].targetViews

MonStatsRespAtGoal(c, m, res) == AtGoalFromSomePointOn(c, m, res) /\ MonStatsResp(c, m, res)

\* One job, its start-all handler and its monitor; no stop-all.
GoalNext ==
    \/ \E j \in FirstJob, cur \in CurrentViewsInputs, tgt \in TargetViewsInputs : CreateJob(j, cur, tgt)
    \/ \E j \in Jobs, ok \in BOOLEAN : CreateStartResp(j, ok)
    \/ \E c \in Jobs, m \in MSlots : MonTimerFire(c, m)
    \/ \E c \in Jobs, m \in MSlots, res \in StatusReplies : MonUpdResp(c, m, res)
    \/ \E c \in Jobs, m \in MSlots, res \in StatsReplies : MonStatsRespAtGoal(c, m, res)
    \/ \E c \in Jobs, m \in MSlots, ok \in BOOLEAN : MonStopResp(c, m, ok)

\* The timer keeps firing (setInterval, line 1065) and every network call
\* returns or times out (axios timeouts of lines 1104, 1142, 1452; the stats
\* promise always resolves).
GoalFairness ==
    /\ \A j \in Jobs : WF_vars(\E ok \in BOOLEAN : CreateStartResp(j, ok))
    /\ \A c \in Jobs : WF_vars(\E m \in MSlots : MonTimerFire(c, m))
    /\ \A c \in Jobs, m \in MSlots :
          /\ WF_vars(\E res \in StatusReplies : MonUpdResp(c, m, res))
          /\ WF_vars(\E res \in StatsReplies : MonStatsRespAtGoal(c, m, res))
          /\ WF_vars(\E ok \in BOOLEAN : MonStopResp(c, m, ok))

GoalSpec == Init /\ [][GoalNext]_vars /\ GoalFairness

\* ------------------------------------------------------------ a signal while a job runs
\* One job and its monitor, and the SIGTERM / SIGINT handler. process.exit is
\* called from the callback of server.close (lines 1810-1813, 1819-1822),
\* which waits for the open connections: the steps after the signal are the
\* ones taken before that callback runs. server.close() takes no new request.
CreateJobBeforeSignal(j, cur, tgt) == ~down /\ CreateJob(j, cur, tgt)

ShutdownNext ==
    \/ StopPermanentOnlineSystem
    \/ \E j \in FirstJob, cur \in CurrentViewsInputs, tgt \in TargetViewsInputs :
           CreateJobBeforeSignal(j, cur, tgt)
    \/ \E j \in Jobs, ok \in BOOLEAN : CreateStartResp(j, ok)
    \/ \E c \in Jobs, m \in MSlots : MonTimerFire(c, m)
    \/ \E c \in Jobs, m \in MSlots, res \in StatusReplies : MonUpdResp(c, m, res)
    \/ \E c \in Jobs, m \in MSlots, res \in StatsReplies : MonStatsResp(c, m, res)
    \/ \E c \in Jobs, m \in MSlots, ok \in BOOLEAN : MonStopResp(c, m, ok)

ShutdownSpec == Init /\ [][ShutdownNext]_vars

\* ------------------------------------------------------------ ticks running to their end
\* The reconciliation loop alone, with every network call of a tick answered
\* or timed out (axios timeouts of lines 438, 472, 503).
TickNext ==
    \/ StartPermanentOnlineSystem
    \/ \E t \in RTicks : ReconTimerFire(t)
    \/ \E t \in RTicks, empty \in BOOLEAN : ReconListResp(t, empty)
    \/ \E t \in RTicks, body \in StatusBodies : ReconStatusOk(t, body)
    \/ \E t \in RTicks : ReconStatusFail(t)
    \/ \E t \in RTicks : ReconIdleStartOk(t)
    \/ \E t \in RTicks : ReconIdleStartFail(t)
    \/ \E t \in RTicks : ReconRecStartOk(t)
    \/ \E t \in RTicks : ReconRecStartFail(t)

TickFairness ==
    \A t \in RTicks :
        /\ WF_vars(\E empty \in BOOLEAN : ReconListResp(t, empty))
        /\ WF_vars(ReconStatusFail(t) \/ \E body \in StatusBodies : ReconStatusOk(t, body))
        /\ WF_vars(ReconIdleStartOk(t) \/ ReconIdleStartFail(t))
        /\ WF_vars(ReconRecStartOk(t) \/ ReconRecStartFail(t))

TickSpec == Init /\ [][TickNext]_vars /\ TickFairness

\* ------------------------------------------------------------ starts and stops of the loop
\* The reconciliation loop with its three callers: the boot timeout, the
\* control API and the signal handlers.
ControlNext ==
    \/ TickNext
    \/ StopPermanentOnlineSystem
    \/ ApiStartPermanentOnline
    \/ ApiStopPermanentOnline

ControlSpec == Init /\ [][ControlNext]_vars

\* ------------------------------------------------------------ a job and the reconciliation loop
\* One job (start 1, goal 2) is created while the reconciliation loop walks
\* the same directory.
FleetNext ==
    \/ TickNext
    \/ \E j \in FirstJob : CreateJob(j, NumInput(1), NumInput(1))
    \/ \E j \in Jobs, ok \in BOOLEAN : CreateStartResp(j, ok)

FleetSpec == Init /\ [][FleetNext]_vars

\* ------------------------------------------------------------ claims
Record(w) == botHeap[permanentOnlineBots[w]]

HasRecord(w) == permanentOnlineBots[w] # NoObj

DirEnabled(w) == \E i \in 1..Len(directory) : directory[i].id = w /\ directory[i].enabled

\* A job CreateJob had to accept: its goal is above its start value.
ValidJob(j) == jobs[j].created /\ jobs[j].targetViews > jobs[j].startViews

\* C1: for every worker the directory returns with enabled = false, a
\* reconciliation tick issues no GetStatus, no Start and no Stop to that
\* worker, and its WorkerRecord is neither created nor mutated (the map, empty
\* at boot, never has an entry for it).
C1_DisabledWorkersUntouched ==
    \A i \in 1..Len(directory) :
        ~directory[i].enabled =>
            /\ ~(ev.t \in RTicks /\ ev.req \in {"GetStatus", "Start", "Stop"} /\ ev.to = directory[i].id)
            /\ ~HasRecord(directory[i].id)

\* C2: when a monitor tick has observed currentValue >= goalValue on a job
\* (with a goal above its start value) and stopJobBots has gone through the
\* job's workers, the job is not running and
\* a Stop has been issued to every worker assigned to the job, whatever its
\* sub-status was; a failed Stop does not keep the later workers from theirs.
C2_StopToEveryAssignedWorker ==
    (ev.req = "StopDone" /\ ValidJob(ev.j)) =>
        /\ ~jobs[ev.j].isRunning
        /\ \A i \in 1..Len(jobs[ev.j].instances) : stopsIssued[ev.j][i] >= 1

\* C3: for one job completion (of a job with a goal above its start value) no
\* assigned worker is issued Stop more than once, under every interleaving of
\* the job's monitor ticks.
C3_StopAtMostOnce ==
    \A j \in Jobs :
        ValidJob(j) => \A i \in 1..Len(jobs[j].instances) : stopsIssued[j][i] <= 1

\* C4: a CreateJob whose goalValue = startValue + delta is not above
\* startValue (delta <= 0, or a missing or non-numeric target) is rejected: no
\* JobRecord with goalValue <= startValue exists, and no Start of a creation
\* carries a target that is not above the job's startValue.
C4_InvalidTargetRejected ==
    /\ \A j \in Jobs : jobs[j].created => jobs[j].targetViews > jobs[j].startViews
    /\ (ev.req = "Start" /\ ev.mode = "persistent") => ev.target > jobs[ev.j].startViews

\* C5: every JobRecord created by CreateJob has startValue equal to the metric
\* value supplied in the request and goalValue = startValue + the requested
\* delta, and every Start of that creation carries goalValue as its target.
C5_StartAndGoalValues ==
    /\ \A j \in Jobs :
          creq[j].j # NoJob =>
             /\ creq[j].cur.num => jobs[j].startViews = creq[j].cur.val
             /\ (creq[j].cur.num /\ creq[j].tgt.num) =>
                   jobs[j].targetViews = jobs[j].startViews + creq[j].tgt.val
    /\ (ev.req = "Start" /\ ev.mode = "persistent") => ev.target = jobs[ev.j].targetViews

\* C5 happens: start 1 and delta 1 were supplied, the record has start 1 and
\* goal 2, and a Start of the creation carries target 2.
C5_Witness ==
    /\ creq[1].j = 1
    /\ creq[1].cur = NumInput(1)
    /\ creq[1].tgt = NumInput(1)
    /\ jobs[1].startViews = 1
    /\ jobs[1].targetViews = 2
    /\ ev.j = 1
    /\ ev.req = "Start"
    /\ ev.mode = "persistent"
    /\ ev.target = 2

\* C6: the progress a status query reports for a job (with a goal above its
\* start value), currentValue - startValue, is never negative.
C6_ProgressNonNegative == (ev.resp = "progress" /\ ValidJob(ev.j)) => ev.progress >= 0

\* C7: a monitor tick whose metric read fails changes neither the
\* currentValue nor the isRunning of its job (a job with a goal above its
\* start value): the failure is not recorded as a value.
C7_MetricFailureLeavesJob ==
    [][(ev'.resp = "stats_fail" /\ ValidJob(ev'.j)) =>
          /\ jobs'[ev'.j].currentViews = jobs[ev'.j].currentViews
          /\ jobs'[ev'.j].isRunning = jobs[ev'.j].isRunning]_vars

\* C8: when a tick's status fetch for an enabled worker fails, the tick issues
\* a Start to that worker then and none after it; when that Start succeeds
\* the worker's restartCount is one more than before, its lastSeen is the
\* time of the step, and a worker without a prior record gets a record with
\* restartCount 1 and critical false.
C8_RecoveryStart ==
    [][\A w \in Workers :
          /\ (ev'.resp = "status_fail" /\ ev'.w = w /\ DirEnabled(w)) =>
                (ev'.req = "Start" /\ ev'.to = w)
          /\ (ev'.resp \in {"rec_start_ok", "rec_start_fail"} /\ ev'.w = w /\ DirEnabled(w)) =>
                ~(ev'.req = "Start" /\ ev'.to = w)
          /\ (ev'.resp = "rec_start_ok" /\ ev'.w = w /\ DirEnabled(w)) =>
                /\ permanentOnlineBots'[w] # NoObj
                /\ botHeap'[permanentOnlineBots'[w]].lastSeen = now
                /\ HasRecord(w) =>
                      botHeap'[permanentOnlineBots'[w]].restartCount = Record(w).restartCount + 1
                /\ (~HasRecord(w) /\ rtick[ev'.t].fresh) =>
                      /\ botHeap'[permanentOnlineBots'[w]].restartCount = 1
                      /\ ~botHeap'[permanentOnlineBots'[w]].critical]_vars

\* C9: when a tick's status fetch for a worker fails and the Start that
\* follows fails too, the worker's record has critical = true and lastError
\* set and its restartCount is what it was; and a record that is critical
\* stays critical in every step that is not a successful status fetch of
\* that worker (as long as the record exists).
C9_CriticalSet ==
    [][\A w \in Workers :
          /\ (ev'.resp = "rec_start_fail" /\ ev'.w = w) =>
                /\ permanentOnlineBots'[w] # NoObj
                /\ botHeap'[permanentOnlineBots'[w]].critical
                /\ botHeap'[permanentOnlineBots'[w]].lastError
                /\ botHeap'[permanentOnlineBots'[w]].restartCount =
                      (IF HasRecord(w) THEN Record(w).restartCount ELSE 0)
          /\ (/\ HasRecord(w)
              /\ Record(w).critical
              /\ permanentOnlineBots'[w] # NoObj
              /\ ~(ev'.resp \in {"status_ok", "status_null"} /\ ev'.w = w)) =>
                botHeap'[permanentOnlineBots'[w]].critical]_vars

\* The restart bound of the contract (MAX_RESTARTS = N).
MAX_RESTARTS == 2

\* C10: a job (with a goal above its start value) none of whose workers ever
\* ran (every Start of the creation failed, so every monitor tick found no
\* running worker) and whose goal is unmet is RESTART_EXHAUSTED, with
\* isRunning = false, once more than MAX_RESTARTS monitor ticks have finished.
C10_RestartExhausted ==
    \A j \in Jobs :
        (/\ ValidJob(j)
         /\ \A i \in 1..Len(jobs[j].instances) : jobs[j].instances[i].status = "failed"
         /\ jobs[j].checkCount > MAX_RESTARTS) => ~jobs[j].isRunning
\* C11: two CreateJob calls for one resource give two distinct jobIds and two
\* separate records: each created job is the record the tracker holds under
\* its own jobId (no stop-all happens), so no call overwrites or removes the
\* record of the other.
C11_DistinctJobIds ==
    \A j \in Jobs, k \in Jobs :
        (jobs[j].created /\ jobs[k].created /\ j # k) =>
            /\ jobs[j].key # jobs[k].key
            /\ progressTracker[jobs[j].key] = j
\* A record of part_002 that CreateJob had to accept: goal above start value.
ValidVideoJob == runningJobs.exists /\ runningJobs.targetViews > runningJobs.startViews

\* Terminal statuses of a job.
TerminalStatuses == {"COMPLETED", "STOPPED", "RESTART_EXHAUSTED"}

\* C12: once the status of a job (with a goal above its start value) is COMPLETED, STOPPED or RESTART_EXHAUSTED,
\* its status and isRunning never change again (as long as the record is the
\* one the same start-all call made), whatever monitor ticks, stop-all calls
\* and start-all calls follow.
C12_TerminalIsFinal ==
    [][(/\ ValidVideoJob
        /\ runningJobs.status \in TerminalStatuses
        /\ runningJobs'.call = runningJobs.call) =>
          /\ runningJobs'.status = runningJobs.status
          /\ runningJobs'.isRunning = runningJobs.isRunning]_vars

\* C13: a stop-all for a job (with a goal above its start value) that is
\* already COMPLETED is a no-op for that job: its status and completedAt stay
\* and the stop-all issues no Stop.
C13_StopCompletedIsNoOp ==
    [][(ValidVideoJob /\ runningJobs.status = "COMPLETED" /\ ev'.resp = "stop_all") =>
          /\ runningJobs'.status = "COMPLETED"
          /\ runningJobs'.completedAt = runningJobs.completedAt
          /\ ev'.req # "Stop"]_vars
\* C14: a status query for the jobId of a job that was created (and has since
\* been stopped by stop-all or has terminated otherwise) is never answered
\* with 'job not found': it returns the job's snapshot.
C14_QueryAfterStop ==
    ev.resp = "not_found" => \A j \in Jobs : ~(jobs[j].created /\ jobs[j].key = ev.key)

\* C15: once a job's isRunning is false, no field of its record is written
\* again, neither by a monitor tick (later or already in flight) nor by a
\* status query. The POST /stop answers of the completing tick's own
\* stopJobBots are left out of the statement.
C15_StoppedJobFrozen ==
    [][\A j \in Jobs :
          (ValidJob(j) /\ ~jobs[j].isRunning /\ ev'.resp \notin {"stop_ok", "stop_fail"}) =>
              jobs'[j] = jobs[j]]_vars

\* C16: at most one tick of the reconciliation loop is executing at any
\* time: while a tick is awaiting a network call, a timer firing starts no
\* second tick body.
C16_OneTickAtATime == Cardinality({t \in RTicks : rtick[t].pc # "idle"}) <= 1

\* C17: a running job that no stop-all stops, whose metric reads return the
\* goal or more from some point on, eventually has isRunning = false and its
\* monitor timer cleared, whatever its workers answer.
C17_GoalEventuallyReported ==
    \A j \in Jobs :
        (jobs[j].created /\ jobs[j].isRunning) ~> (~jobs[j].isRunning /\ ~monitor[j])

\* A valid job is finished, its timer cleared, with a worker that failed to
\* start or went offline.
C17_Witness ==
    \E j \in Jobs :
        /\ ValidJob(j) /\ ~jobs[j].isRunning /\ ~monitor[j]
        /\ jobs[j].checkCount > 0
        /\ \E i \in 1..Len(jobs[j].instances) : jobs[j].instances[i].status \in {"failed", "offline"}

\* C18: once the SIGTERM / SIGINT handler has run, no tick of the
\* reconciliation loop and no tick of a job monitor is started.
C18_NoTickAfterSignal == [][down => ev'.resp # "timer"]_vars

\* C19: when a tick's status fetch for a worker has succeeded and the tick
\* has finished with that worker (no Start was needed, or its Start was
\* answered), the worker's record has critical = false and no lastError.
C19_SuccessClearsCritical ==
    (/\ \/ (ev.resp = "status_ok" /\ ev.mode = "none")
        \/ ev.resp = "idle_start_ok"
     /\ HasRecord(ev.w)) =>
        /\ ~Record(ev.w).critical
        /\ ~Record(ev.w).lastError

\* C20: when a tick's status fetch for an enabled worker succeeds (with a
\* body that says running = true or running = false), the keep-alive Start is
\* issued to that worker if and only if the body says running = false; the
\* restartCount of the worker's record goes up by exactly 1 when that Start
\* succeeds and stays what it was when it fails or when no Start is issued.
C20_IdleStart ==
    [][\A w \in Workers :
          (DirEnabled(w) /\ ev'.w = w) =>
              /\ (ev'.resp = "status_ok" /\ ev'.body \in {"running", "idle"}) =>
                    ((ev'.req = "Start" /\ ev'.to = w /\ ev'.mode = "permanent") <=> ev'.body = "idle")
              /\ (ev'.resp = "idle_start_ok" /\ HasRecord(w) /\ permanentOnlineBots'[w] # NoObj) =>
                    botHeap'[permanentOnlineBots'[w]].restartCount = Record(w).restartCount + 1
              /\ (/\ \/ ev'.resp = "idle_start_fail"
                      \/ (ev'.resp = "status_ok" /\ ev'.body = "running")
                  /\ HasRecord(w)
                  /\ permanentOnlineBots'[w] # NoObj) =>
                    botHeap'[permanentOnlineBots'[w]].restartCount = Record(w).restartCount]_vars

\* C21: when a worker's status fetch succeeded with running = false and the
\* Start issued to restart it fails, the tick records the failure in the
\* record's lastError and does not change its critical flag.
C21_IdleStartFailureRecorded ==
    [][\A w \in Workers :
          (/\ ev'.resp = "idle_start_fail" /\ ev'.w = w
           /\ HasRecord(w)
           /\ permanentOnlineBots'[w] # NoObj) =>
              /\ botHeap'[permanentOnlineBots'[w]].lastError
              /\ botHeap'[permanentOnlineBots'[w]].critical = Record(w).critical]_vars

\* C22: the restartCount of a worker's record never decreases from one state
\* in which the record exists to the next, whatever ticks are in flight.
C22_RestartCountMonotonic ==
    [][\A w \in Workers :
          (HasRecord(w) /\ permanentOnlineBots'[w] # NoObj) =>
              botHeap'[permanentOnlineBots'[w]].restartCount >= Record(w).restartCount]_vars

\* C23: in a reconciliation tick a failure while handling one worker (status
\* fetch failed, Start failed, status body missing) never keeps the tick from
\* the workers later in the list: once a worker is dealt with the tick goes
\* on to the next one and ends only after the last; and every tick that has
\* started finishes.
C23_FailuresDoNotAbortTick ==
    /\ [][\A t \in RTicks :
             (rtick[t].pc \in {"status", "start_idle", "start_rec"} /\ rtick'[t] # rtick[t]) =>
                 \/ /\ rtick[t].pc = "status"
                    /\ rtick'[t].pc \in {"start_idle", "start_rec"}
                    /\ rtick'[t].idx = rtick[t].idx
                 \/ /\ rtick[t].idx < Len(directory)
                    /\ rtick'[t].pc = "status"
                    /\ rtick'[t].idx = rtick[t].idx + 1
                 \/ /\ rtick[t].idx = Len(directory)
                    /\ rtick'[t].pc = "idle"]_vars
    /\ \A t \in RTicks : (rtick[t].pc # "idle") ~> (rtick[t].pc = "idle")

\* The first worker's status fetch and its recovery Start have failed (or its
\* status body was null), and the same tick is polling the second worker.
C23_Witness ==
    /\ ev.resp = "rec_start_fail"
    /\ ev.w = directory[1].id
    /\ Len(directory) = 2
    /\ ev.req = "GetStatus"
    /\ ev.to = directory[2].id
    /\ rtick[ev.t].pc = "status"
    /\ rtick[ev.t].idx = 2

\* C24: a 2xx status answer whose body has no running field is handled like
\* an unreachable worker: the status step does not update lastSeen and the
\* recovery Start is issued to the worker.
C24_SchemaMismatchIsUnreachable ==
    [][\A w \in Workers :
          (ev'.resp = "status_ok" /\ ev'.body = "nofield" /\ ev'.w = w) =>
              /\ ev'.req = "Start" /\ ev'.to = w /\ ev'.mode = "permanent_recovery"
              /\ HasRecord(w) =>
                    botHeap'[permanentOnlineBots'[w]].lastSeen = Record(w).lastSeen]_vars

\* C25: the lastSeen of a worker's record is set or changed only by a step in
\* which the worker's status fetch succeeded, and a record (which carries a
\* lastSeen) is created only by such a step. (The step of a successful
\* recovery Start, which C8 has update lastSeen, is left out of the statement.)
C25_LastSeenOnlyOnStatusSuccess ==
    [][\A w \in Workers :
          (/\ ~(ev'.resp \in {"status_ok", "status_null"} /\ ev'.w = w)
           /\ ev'.resp # "rec_start_ok") =>
              /\ (HasRecord(w) /\ permanentOnlineBots'[w] # NoObj) =>
                    botHeap'[permanentOnlineBots'[w]].lastSeen = Record(w).lastSeen
              /\ ~HasRecord(w) => permanentOnlineBots'[w] = NoObj]_vars

\* C26: at the end of every call of updateInstanceStatuses (the monitor tick
\* goes on to the metric, the live-progress handler answers) the job's
\* totalSuccess is the sum of the success counters of all its instances and
\* totalRequests the sum of their request counters.
C26_TotalsAreSums ==
    [][\A j \in Jobs :
          (/\ ev'.j = j
           /\ \/ ev'.resp \in {"timer", "status_ok", "status_fail"} /\ ev'.req = "Stats"
              \/ ev'.resp = "progress") =>
              /\ jobs'[j].totalSuccess = SumSuccess(jobs'[j].instances, Len(jobs'[j].instances))
              /\ jobs'[j].totalRequests = SumRequests(jobs'[j].instances, Len(jobs'[j].instances))]_vars

\* A call has ended on a job with two instances, one that answered with its
\* counters and one that failed to start or went offline.
C26_Witness ==
    /\ ev.j \in Jobs
    /\ ev.req = "Stats" \/ ev.resp = "progress"
    /\ Len(jobs[ev.j].instances) = 2
    /\ \E i, k \in 1..2 :
          /\ jobs[ev.j].instances[i].status \in {"failed", "offline"}
          /\ jobs[ev.j].instances[k].success > 0
    /\ jobs[ev.j].totalSuccess > 0
    /\ jobs[ev.j].totalRequests > jobs[ev.j].totalSuccess

\* C27: once stop-all has answered (the tracker no longer has the entry of a
\* job created before it), no later step puts a running job back under that
\* jobId, and no monitor tick of that job starts polling again.
C27_StoppedJobsStayOut ==
    [][\A j \in Jobs :
          (ValidJob(j) /\ progressTracker[jobs[j].key] = NoJob) =>
              /\ \/ progressTracker'[jobs[j].key] = NoJob
                 \/ ~jobs'[progressTracker'[jobs[j].key]].isRunning
              /\ ~(ev'.resp = "timer" /\ ev'.j = j)]_vars

\* C28: after any sequence of start and stop calls (boot, control API,
\* shutdown) at most one reconciliation interval timer is active, it is the
\* one the variable holds, and none is active from a stop call to the next
\* start call (the variable is null).
C28_OneIntervalTimer ==
    /\ [](/\ Cardinality(permanentOnlineInterval.active) <= 1
          /\ permanentOnlineInterval.active \subseteq {permanentOnlineInterval.handle}
          /\ permanentOnlineInterval.handle = 0 => permanentOnlineInterval.active = {})
    /\ [][ev'.resp \in {"signal", "api_stop"} =>
             (permanentOnlineInterval'.active = {} /\ permanentOnlineInterval'.handle = 0)]_vars

\* A start call has come while a timer was set, after a shutdown signal has
\* been handled, and one timer is active.
C28_Witness ==
    /\ ev.resp = "api_start"
    /\ ev.mode = "restart"
    /\ down
    /\ booted
    /\ Cardinality(permanentOnlineInterval.active) = 1

\* C29: while a job is running, the reconciliation loop sends its keep-alive
\* Start (mode permanent or permanent_recovery, default target) to none of
\* the workers assigned to that job.
C29_NoKeepAliveStartToAssigned ==
    [][\A j \in Jobs :
          (/\ ValidJob(j) /\ jobs[j].isRunning
           /\ ev'.req = "Start"
           /\ ev'.mode \in {"permanent", "permanent_recovery"}) =>
              \A i \in 1..Len(jobs[j].instances) : jobs[j].instances[i].id # ev'.to]_vars

\* C30: once an instance of a job has a sub-status other than running
\* (failed, stopped or offline), its status and its counters never change
\* again and no GET /status is sent to it for that job.
C30_NotRunningIsFinal ==
    [][\A j \in Jobs :
          ValidJob(j) =>
              \A i \in 1..Len(jobs[j].instances) :
                  jobs[j].instances[i].status \in {"failed", "stopped", "offline"} =>
                      /\ jobs'[j].instances[i] = jobs[j].instances[i]
                      /\ ~(/\ ev'.req = "GetStatus"
                           /\ ev'.j = j
                           /\ ev'.to = jobs[j].instances[i].id)]_vars
====
